---- MODULE Spec2Model ----
(***************************************************************************)
(* PunarVastra backend (src/app.py): the image analysis pipeline           *)
(* (analyze_image_ai and its helpers) and the materials/orders store       *)
(* behind the HTTP handlers.                                               *)
(*                                                                         *)
(* Numbers.  Python floats are modelled as scaled integers:                *)
(*   edge density   in thousandths  (0.25  is 250)                         *)
(*   quality score  in hundredths   (0.75  is 75)                          *)
(*   weight         in tenths       (1.5   is 15)                          *)
(*   variance, Laplacian variance and quantities as whole numbers.         *)
(* np.std(gray) is sqrt(np.var(gray)); a comparison std_dev < t is         *)
(* decided as variance < t*t.                                              *)
(* Strings that the code searches with `in` are looked up in Chars, which  *)
(* gives their characters, so that a substring test is a real search.      *)
(***************************************************************************)
EXTENDS Integers, Sequences, FiniteSets, TLC

VARIABLES
    HAS_AI_LIBS,    \* module global set by the import block
    image_path,     \* per call: the argument of analyze_image_ai (<<>> before the call)
    pc,             \* per call: position inside analyze_image_ai
    exc,            \* per call: the exception the try block raised ("none" if none)
    colors,         \* per call: local `colors` (cluster centres), <<>> until fitted
    result,         \* per call: <<record>> once returned, <<>> before
    via,            \* per call: which return statement produced the result
    args,           \* argument tuple of a helper called on its own
    ret,            \* <<value>> once that helper has returned
    materials_db,   \* module global list of material records
    orders_db,      \* module global list of order records
    response        \* last HTTP response: [status, body...] 

vars == <<HAS_AI_LIBS, image_path, pc, exc, colors, result, via, args, ret,
          materials_db, orders_db, response>>

pipelineVars == <<HAS_AI_LIBS, image_path, pc, exc, colors, result, via>>
helperVars == <<args, ret>>
storeVars == <<materials_db, orders_db>>

(***************************************************************************)
(* Strings                                                                 *)
(***************************************************************************)
Chars ==
    ("Smooth Silk" :> <<"S", "m", "o", "o", "t", "h", " ", "S", "i", "l", "k">>) @@
    ("Smooth Cotton" :> <<"S", "m", "o", "o", "t", "h", " ", "C", "o", "t", "t", "o", "n">>) @@
    ("Cotton" :> <<"C", "o", "t", "t", "o", "n">>) @@
    ("Textured Cotton" :> <<"T", "e", "x", "t", "u", "r", "e", "d", " ", "C", "o", "t", "t", "o", "n">>) @@
    ("Denim" :> <<"D", "e", "n", "i", "m">>) @@
    ("Polyester Mix" :> <<"P", "o", "l", "y", "e", "s", "t", "e", "r", " ", "M", "i", "x">>) @@
    ("Canvas/Heavy Cotton" :> <<"C", "a", "n", "v", "a", "s", "/", "H", "e", "a", "v", "y", " ", "C", "o", "t", "t", "o", "n">>) @@
    ("Cotton Blend" :> <<"C", "o", "t", "t", "o", "n", " ", "B", "l", "e", "n", "d">>) @@
    ("Cotton Quilted" :> <<"C", "o", "t", "t", "o", "n", " ", "Q", "u", "i", "l", "t", "e", "d">>) @@
    ("Silk Blend" :> <<"S", "i", "l", "k", " ", "B", "l", "e", "n", "d">>) @@
    ("Cotton Canvas" :> <<"C", "o", "t", "t", "o", "n", " ", "C", "a", "n", "v", "a", "s">>) @@
    ("Linen" :> <<"L", "i", "n", "e", "n">>) @@
    ("cotton" :> <<"c", "o", "t", "t", "o", "n">>) @@
    ("" :> <<>>) @@
    ("Complex Patchwork" :> <<"C", "o", "m", "p", "l", "e", "x", " ", "P", "a", "t", "c", "h", "w", "o", "r", "k">>) @@
    ("Patchwork" :> <<"P", "a", "t", "c", "h", "w", "o", "r", "k">>) @@
    ("Geometric" :> <<"G", "e", "o", "m", "e", "t", "r", "i", "c">>) @@
    ("Abstract/Mixed" :> <<"A", "b", "s", "t", "r", "a", "c", "t", "/", "M", "i", "x", "e", "d">>) @@
    ("Solid/Plain" :> <<"S", "o", "l", "i", "d", "/", "P", "l", "a", "i", "n">>) @@
    ("Striped/Linear" :> <<"S", "t", "r", "i", "p", "e", "d", "/", "L", "i", "n", "e", "a", "r">>) @@
    ("Textured" :> <<"T", "e", "x", "t", "u", "r", "e", "d">>) @@
    ("Striped" :> <<"S", "t", "r", "i", "p", "e", "d">>) @@
    ("Floral" :> <<"F", "l", "o", "r", "a", "l">>) @@
    ("Abstract" :> <<"A", "b", "s", "t", "r", "a", "c", "t">>) @@
    ("White/Light" :> <<"W", "h", "i", "t", "e", "/", "L", "i", "g", "h", "t">>) @@
    ("Black/Dark" :> <<"B", "l", "a", "c", "k", "/", "D", "a", "r", "k">>) @@
    ("Gray" :> <<"G", "r", "a", "y">>) @@
    ("Red" :> <<"R", "e", "d">>) @@
    ("Pink/Coral" :> <<"P", "i", "n", "k", "/", "C", "o", "r", "a", "l">>) @@
    ("Orange/Peach" :> <<"O", "r", "a", "n", "g", "e", "/", "P", "e", "a", "c", "h">>) @@
    ("Red/Pink" :> <<"R", "e", "d", "/", "P", "i", "n", "k">>) @@
    ("Blue" :> <<"B", "l", "u", "e">>) @@
    ("Purple/Violet" :> <<"P", "u", "r", "p", "l", "e", "/", "V", "i", "o", "l", "e", "t">>) @@
    ("Green" :> <<"G", "r", "e", "e", "n">>) @@
    ("Teal/Cyan" :> <<"T", "e", "a", "l", "/", "C", "y", "a", "n">>) @@
    ("Yellow" :> <<"Y", "e", "l", "l", "o", "w">>) @@
    ("Yellow/Gold" :> <<"Y", "e", "l", "l", "o", "w", "/", "G", "o", "l", "d">>) @@
    ("Brown/Tan" :> <<"B", "r", "o", "w", "n", "/", "T", "a", "n">>) @@
    ("Multi-color" :> <<"M", "u", "l", "t", "i", "-", "c", "o", "l", "o", "r">>) @@
    ("Multi-color (Red, Blue, Beige)" :> <<"M", "u", "l", "t", "i", "-", "c", "o", "l", "o", "r", " ", "(", "R", "e", "d", ",", " ", "B", "l", "u", "e", ",", " ", "B", "e", "i", "g", "e", ")">>) @@
    ("Pink/Coral Palette" :> <<"P", "i", "n", "k", "/", "C", "o", "r", "a", "l", " ", "P", "a", "l", "e", "t", "t", "e">>) @@
    ("Denim Blue with Patches" :> <<"D", "e", "n", "i", "m", " ", "B", "l", "u", "e", " ", "w", "i", "t", "h", " ", "P", "a", "t", "c", "h", "e", "s">>) @@
    ("Earthy Tones" :> <<"E", "a", "r", "t", "h", "y", " ", "T", "o", "n", "e", "s">>) @@
    ("Vibrant Mix" :> <<"V", "i", "b", "r", "a", "n", "t", " ", "M", "i", "x">>) @@
    ("Silk" :> <<"S", "i", "l", "k">>) @@
    ("Polyester" :> <<"P", "o", "l", "y", "e", "s", "t", "e", "r">>) @@
    ("all" :> <<"a", "l", "l">>) @@
    ("red" :> <<"r", "e", "d">>) @@
    ("BLUE" :> <<"B", "L", "U", "E">>) @@
    ("silk" :> <<"s", "i", "l", "k">>) @@
    ("gray" :> <<"g", "r", "a", "y">>)

UpperCase == <<"A","B","C","D","E","F","G","H","I","J","K","L","M",
               "N","O","P","Q","R","S","T","U","V","W","X","Y","Z">>
LowerCase == <<"a","b","c","d","e","f","g","h","i","j","k","l","m",
               "n","o","p","q","r","s","t","u","v","w","x","y","z">>

\* str.lower() on one character
LowerChar(ch) ==
    IF \E i \in 1..Len(UpperCase) : UpperCase[i] = ch
    THEN LowerCase[CHOOSE i \in 1..Len(UpperCase) : UpperCase[i] = ch]
    ELSE ch

\* str.lower()
Lower(s) == [i \in 1..Len(s) |-> LowerChar(s[i])]

\* Python `needle in hay` on strings given as character sequences
Contains(needle, hay) ==
    \E i \in 0..(Len(hay) - Len(needle)) :
        \A j \in 1..Len(needle) : hay[i + j] = needle[j]

\* `needle in hay` on string literals
StrIn(needle, hay) == Contains(Chars[needle], Chars[hay])

\* `a.lower() in b.lower()` on string literals
StrInLower(a, b) == Contains(Lower(Chars[a]), Lower(Chars[b]))

(***************************************************************************)
(* get_upcycling_ideas                                                     *)
(***************************************************************************)
CottonIdeas == <<"Tote bags and shopping bags", "Quilts and patchwork blankets",
                 "Cushion covers and pillow cases", "Kitchen towels and napkins",
                 "Eco-friendly gift wrapping">>
DenimIdeas == <<"Denim jackets and vests", "Tote bags and backpacks",
                "Aprons and work wear", "Home organizers and wall pockets",
                "Pet accessories and toys">>
SilkIdeas == <<"Scarves and accessories", "Premium cushion covers",
               "Decorative wall hangings", "Gift wrapping and packaging",
               "Jewelry pouches">>
PolyesterIdeas == <<"Outdoor cushions and covers", "Reusable shopping bags",
                    "Sports and gym bags", "Waterproof pouches",
                    "Pet beds and accessories">>
DefaultIdeas == <<"Mixed fabric quilts", "Patchwork home decor", "Craft projects",
                  "Fabric scrap art", "Multi-purpose bags">>
PatternIdeas == <<"Bohemian style clothing", "Decorative wall art">>

\* the if/elif chain on the texture name: which static list is selected
TextureIdeas(texture) ==
    IF StrIn("Cotton", texture) THEN CottonIdeas
    ELSE IF StrIn("Denim", texture) THEN DenimIdeas
    ELSE IF StrIn("Silk", texture) THEN SilkIdeas
    ELSE IF StrIn("Polyester", texture) THEN PolyesterIdeas
    ELSE DefaultIdeas

\* ideas[:n]
Take(s, n) == SubSeq(s, 1, IF Len(s) < n THEN Len(s) ELSE n)

TopIdeas == 5

\* get_upcycling_ideas returning `ideas` instead of `ideas[:5]`
get_upcycling_ideas_untruncated(texture, pattern, color) ==
    LET ideas == TextureIdeas(texture)
    IN IF StrIn("Patchwork", pattern) \/ StrIn("Floral", pattern)
       THEN ideas \o PatternIdeas
       ELSE ideas

get_upcycling_ideas(texture, pattern, color) ==
    LET ideas == TextureIdeas(texture)
        more == IF StrIn("Patchwork", pattern) \/ StrIn("Floral", pattern)
                THEN ideas \o PatternIdeas
                ELSE ideas
    IN Take(more, TopIdeas)

(***************************************************************************)
(* classify_color                                                          *)
(***************************************************************************)
Max3(a, b, c) == IF a >= b /\ a >= c THEN a ELSE IF b >= c THEN b ELSE c
Min3(a, b, c) == IF a <= b /\ a <= c THEN a ELSE IF b <= c THEN b ELSE c

GrayDiff == 30

\* the variant a slip in the grayscale test would give: brightness decides
\* before the channel spread is looked at
classify_color_no_spread(rgb) ==
    LET max_val == Max3(rgb[1], rgb[2], rgb[3])
    IN IF max_val > 200 THEN "White/Light"
       ELSE IF max_val < 80 THEN "Black/Dark"
       ELSE "Gray"

classify_color(rgb) ==
    LET r == rgb[1]
        g == rgb[2]
        b == rgb[3]
        max_val == Max3(r, g, b)
        min_val == Min3(r, g, b)
        diff == max_val - min_val
    IN IF diff < GrayDiff THEN
            IF max_val > 200 THEN "White/Light"
            ELSE IF max_val < 80 THEN "Black/Dark"
            ELSE "Gray"
       ELSE IF r > g + 30 /\ r > b + 30 THEN
            IF r > 180 /\ g < 100 THEN "Red"
            ELSE IF r > 150 /\ g > 80 /\ g < 150 THEN "Pink/Coral"
            ELSE IF r > 140 /\ g > 60 THEN "Orange/Peach"
            ELSE "Red/Pink"
       ELSE IF b > r + 30 /\ b > g + 30 THEN
            IF b > 150 /\ r < 100 THEN "Blue"
            ELSE IF b > 100 /\ r > 80 THEN "Purple/Violet"
            ELSE "Blue"
       ELSE IF g > r + 30 /\ g > b + 30 THEN
            IF g > 150 /\ b < 100 THEN "Green"
            ELSE IF g > 150 /\ b > 100 THEN "Teal/Cyan"
            ELSE "Green"
       ELSE IF r > 150 /\ g > 150 /\ b < 120 THEN
            IF r > 200 /\ g > 200 THEN "Yellow" ELSE "Yellow/Gold"
       ELSE IF r > 100 /\ g > 60 /\ b < 100 /\ r > g /\ g > b THEN "Brown/Tan"
       ELSE "Multi-color"

(***************************************************************************)
(* detect_pattern (edge density in thousandths)                            *)
(***************************************************************************)
detect_pattern(edge_density, variance) ==
    IF edge_density > 300 THEN "Complex Patchwork"
    ELSE IF edge_density > 220 THEN "Patchwork"
    ELSE IF edge_density > 150 /\ variance > 2500 THEN "Geometric"
    ELSE IF variance > 3500 THEN "Abstract/Mixed"
    ELSE IF edge_density < 80 THEN "Solid/Plain"
    ELSE IF 120 < edge_density /\ edge_density < 180 THEN "Striped/Linear"
    ELSE "Textured"

(***************************************************************************)
(* The texture ladder of analyze_image_ai.  std_dev = sqrt(variance), so   *)
(* std_dev < 40 is variance < 1600, std_dev < 60 is variance < 3600 and    *)
(* std_dev > 50 is variance > 2500.                                        *)
(***************************************************************************)
StdLess(variance, t) == variance < t * t
StdGreater(variance, t) == variance > t * t

\* the ladder with the Denim rule joined by `or` instead of `and`
texture_ladder_or(edge_density, variance) ==
    IF edge_density < 50 /\ variance < 1000 THEN "Smooth Silk"
    ELSE IF edge_density < 100 /\ variance < 2000 THEN "Smooth Cotton"
    ELSE IF edge_density < 150 /\ StdLess(variance, 40) THEN "Cotton"
    ELSE IF edge_density < 200 /\ StdLess(variance, 60) THEN "Textured Cotton"
    ELSE IF edge_density > 250 \/ StdGreater(variance, 50) THEN "Denim"
    ELSE IF variance > 3000 THEN "Polyester Mix"
    ELSE IF edge_density > 200 THEN "Canvas/Heavy Cotton"
    ELSE "Cotton Blend"

texture_ladder(edge_density, variance) ==
    IF edge_density < 50 /\ variance < 1000 THEN "Smooth Silk"
    ELSE IF edge_density < 100 /\ variance < 2000 THEN "Smooth Cotton"
    ELSE IF edge_density < 150 /\ StdLess(variance, 40) THEN "Cotton"
    ELSE IF edge_density < 200 /\ StdLess(variance, 60) THEN "Textured Cotton"
    ELSE IF edge_density > 250 /\ StdGreater(variance, 50) THEN "Denim"
    ELSE IF variance > 3000 THEN "Polyester Mix"
    ELSE IF edge_density > 200 THEN "Canvas/Heavy Cotton"
    ELSE "Cotton Blend"

(***************************************************************************)
(* Quality and weight                                                      *)
(***************************************************************************)
MinOf(a, b) == IF a <= b THEN a ELSE b

\* Python round(): n/d to the nearest integer, ties to the even one (the exact
\* quotient is rounded; a float a hair off an exact tie may round the other way)
RoundDiv(n, d) ==
    LET q == n \div d
        r2 == 2 * (n % d)
    IN IF r2 > d THEN q + 1
       ELSE IF r2 < d THEN q
       ELSE IF q % 2 = 0 THEN q ELSE q + 1

\* blur_normalized * 1000: the Laplacian variance is only taken when the AI
\* libraries are present, 0.8 stands in otherwise
BlurNormalized(blur_score) == IF HAS_AI_LIBS THEN MinOf(blur_score, 1000) ELSE 800

\* assess_quality with the two min(..., 1.0) clamps left out
assess_quality_unclamped(pixels, blur_score) ==
    RoundDiv(60000 * blur_score + 40 * pixels, 1000000)

\* quality in hundredths from the pixel count and the Laplacian variance:
\*   blur_normalized  = min(blur_score / 1000, 1.0)
\*   resolution_score = min(pixels / 1000000, 1.0)
\*   round(blur_normalized * 0.6 + resolution_score * 0.4, 2)
assess_quality(pixels, blur_score) ==
    LET blur_k == BlurNormalized(blur_score)
        res_m == MinOf(pixels, 1000000)         \* resolution_score * 1000000
    IN RoundDiv(60000 * blur_k + 40 * res_m, 1000000)

\* get_quality_rating with the tiers of 0.85 / 0.70 and no "Premium"
get_quality_rating_three_tiers(score) ==
    IF score >= 85 THEN "Excellent"
    ELSE IF score >= 70 THEN "Good"
    ELSE "Fair"

get_quality_rating(score) ==
    IF score >= 90 THEN "Premium"
    ELSE IF score >= 75 THEN "Excellent"
    ELSE IF score >= 60 THEN "Good"
    ELSE "Fair"

\* round(1.5 * (1 + edge_density), 1) in tenths
estimate_weight(edge_density) == RoundDiv(15 * (1000 + edge_density), 1000)

(***************************************************************************)
(* rgb_to_hex                                                              *)
(***************************************************************************)
HexDigits == <<"0","1","2","3","4","5","6","7","8","9","a","b","c","d","e","f">>

\* '{:02x}'.format(n) for n in 0..255
Hex2(n) == <<HexDigits[(n \div 16) + 1], HexDigits[(n % 16) + 1]>>

rgb_to_hex(rgb) == <<"#">> \o Hex2(rgb[1]) \o Hex2(rgb[2]) \o Hex2(rgb[3])

(***************************************************************************)
(* simulate_ai_analysis                                                    *)
(***************************************************************************)
SimColors == {"Multi-color (Red, Blue, Beige)", "Pink/Coral Palette",
              "Denim Blue with Patches", "Earthy Tones", "Vibrant Mix"}
SimTextures == {"Cotton Quilted", "Denim", "Silk Blend", "Cotton Canvas",
                "Polyester Mix"}
SimPatterns == {"Patchwork", "Striped", "Floral", "Geometric", "Abstract"}

\* round(random.uniform(0.7, 0.95), 2) lies in 0.70 .. 0.95: the two ends
SimQualities == {70, 95}
\* round(random.uniform(1.0, 5.0), 1) lies in 1.0 .. 5.0: the two ends
SimWeights == {10, 50}

SimHex == <<"#", "d", "4", "a", "f", "3", "7">>
SimDominant == << <<"#", "d", "4", "a", "f", "3", "7">>,
                  <<"#", "c", "9", "4", "b", "7", "d">>,
                  <<"#", "6", "6", "7", "e", "e", "a">> >>

\* simulate_ai_analysis with the rating derived from the drawn score
simulate_ai_analysis_rated ==
    { [color |-> c, color_hex |-> SimHex, texture |-> t, pattern |-> p,
       quality |-> q, quality_rating |-> get_quality_rating(q),
       estimated_weight |-> w, dominant_colors |-> SimDominant,
       upcycling_ideas |-> get_upcycling_ideas(t, p, c)] :
      c \in SimColors, t \in SimTextures, p \in SimPatterns,
      q \in SimQualities, w \in SimWeights }

\* the records simulate_ai_analysis can return: three random.choice draws and
\* two random.uniform draws, the other fields fixed
simulate_ai_analysis ==
    { [color |-> c, color_hex |-> SimHex, texture |-> t, pattern |-> p,
       quality |-> q, quality_rating |-> "Excellent",
       estimated_weight |-> w, dominant_colors |-> SimDominant,
       upcycling_ideas |-> get_upcycling_ideas(t, p, c)] :
      c \in SimColors, t \in SimTextures, p \in SimPatterns,
      q \in SimQualities, w \in SimWeights }

(***************************************************************************)
(* Images.  An image file is described by what OpenCV and scikit-learn     *)
(* report for it: whether cv2.imread can decode it, its shape, the cluster *)
(* centres KMeans finds (already cast to int), the Canny edge density, the *)
(* gray-level variance and the Laplacian variance.                         *)
(***************************************************************************)
NoImage(kind) ==
    [file |-> kind, height |-> 0, width |-> 0, centers |-> <<>>,
     edge |-> 0, variance |-> 0, blur |-> 0]

Image(dim, centers, edge, variance, blur) ==
    [file |-> "ok", height |-> dim[1], width |-> dim[2], centers |-> centers,
     edge |-> edge, variance |-> variance, blur |-> blur]

Uniform(rgb) == <<rgb, rgb, rgb, rgb, rgb>>

DenimBlue == <<40, 70, 110>>
UniformColors == {DenimBlue, <<128, 128, 128>>, <<255, 0, 0>>}
MixedCenters == << <<200, 30, 30>>, <<30, 30, 200>>, <<120, 120, 120>>,
                   <<250, 250, 250>>, <<10, 10, 10>> >>
OliveCenters == << <<100, 100, 50>>, <<20, 10, 0>>, <<160, 160, 100>>,
                   <<0, 200, 150>>, <<120, 90, 40>> >>

Dims == {<<1, 1>>, <<2, 2>>, <<50, 50>>, <<1000, 1000>>, <<3000, 4000>>}
EdgeVals == {0, 49, 50, 99, 100, 149, 150, 199, 200, 201, 250, 251, 400}
VarVals == {1, 999, 1000, 1599, 1600, 1999, 2000, 2500, 2501, 3000, 3001,
            3599, 3600, 5000}
BlurVals == {0, 1, 500, 999, 1000, 2500}

UniformImages == { Image(d, Uniform(c), 0, 0, 0) : d \in Dims, c \in UniformColors }
TexturedImages ==
    { Image(<<1000, 1000>>, MixedCenters, e, v, 500) : e \in EdgeVals, v \in VarVals }
SizedImages ==
    { Image(d, OliveCenters, 120, 1200, b) : d \in Dims \ {<<1, 1>>}, b \in BlurVals }
BadFiles == { NoImage("missing"), NoImage("corrupt") }

AnalyzeImages == BadFiles \cup UniformImages \cup TexturedImages \cup SizedImages

(***************************************************************************)
(* analyze_image_ai                                                        *)
(***************************************************************************)
Calls == {1, 2}

n_clusters == 5

\* KMeans(random_state=None): every run may order the centres differently
AnySeed == 0..4

\* KMeans(random_state=42)
random_state == {42}

\* cluster_centers_ of a fit: the centres in the order the seed gives
KMeansFit(img, seed) ==
    LET n == Len(img.centers)
    IN [i \in 1..n |-> img.centers[((i - 1 + seed) % n) + 1]]

\* `except cv2.error` in place of `except Exception`
CatchesCvErrorOnly(e) == e = "cv2.error"

\* `except Exception`: cv2.error and ValueError are both subclasses
Catches(e) == e \in {"cv2.error", "ValueError"}

\* the dict built by the return statement of the try block
ComputedRecord(img, cols) ==
    LET dominant_color == cols[1]
        color_name == classify_color(dominant_color)
        texture == texture_ladder(img.edge, img.variance)
        pattern == detect_pattern(img.edge, img.variance)
        quality_score == assess_quality(img.height * img.width, img.blur)
    IN [color |-> color_name,
        color_hex |-> rgb_to_hex(dominant_color),
        texture |-> texture,
        pattern |-> pattern,
        quality |-> quality_score,
        quality_rating |-> get_quality_rating(quality_score),
        estimated_weight |-> estimate_weight(img.edge),
        dominant_colors |-> [i \in 1..3 |-> rgb_to_hex(cols[i])],
        upcycling_ideas |-> get_upcycling_ideas(texture, pattern, color_name)]

Return(c, rec, how) ==
    /\ result' = [result EXCEPT ![c] = <<rec>>]
    /\ via' = [via EXCEPT ![c] = how]
    /\ pc' = [pc EXCEPT ![c] = "returned"]

Raise(c, e) ==
    /\ exc' = [exc EXCEPT ![c] = e]
    /\ pc' = [pc EXCEPT ![c] = "except"]

\* entry: `if not HAS_AI_LIBS: return simulate_ai_analysis()`
Call(c) ==
    /\ pc[c] = "idle"
    /\ IF ~HAS_AI_LIBS
       THEN \E rec \in simulate_ai_analysis : Return(c, rec, "simulation")
       ELSE /\ pc' = [pc EXCEPT ![c] = "decode"]
            /\ UNCHANGED <<result, via>>
    /\ UNCHANGED <<HAS_AI_LIBS, image_path, exc, colors, helperVars, storeVars, response>>

\* cv2.imread gives None for a file it cannot read, and cv2.cvtColor(None, ...)
\* raises cv2.error
Decode(c) ==
    /\ pc[c] = "decode"
    /\ IF image_path[c][1].file # "ok"
       THEN Raise(c, "cv2.error")
       ELSE /\ pc' = [pc EXCEPT ![c] = "cluster"]
            /\ UNCHANGED exc
    /\ UNCHANGED <<HAS_AI_LIBS, image_path, colors, result, via, helperVars, storeVars, response>>

\* kmeans.fit(pixels) raises ValueError when there are fewer pixels than clusters
Cluster(c) ==
    /\ pc[c] = "cluster"
    /\ LET img == image_path[c][1]
       IN IF img.height * img.width < n_clusters
          THEN Raise(c, "ValueError") /\ UNCHANGED colors
          ELSE /\ \E seed \in random_state :
                    colors' = [colors EXCEPT ![c] = KMeansFit(img, seed)]
               /\ pc' = [pc EXCEPT ![c] = "classify"]
               /\ UNCHANGED exc
    /\ UNCHANGED <<HAS_AI_LIBS, image_path, result, via, helperVars, storeVars, response>>

\* the rest of the try block, up to its return
Classify(c) ==
    /\ pc[c] = "classify"
    /\ Return(c, ComputedRecord(image_path[c][1], colors[c]), "computed")
    /\ UNCHANGED <<HAS_AI_LIBS, image_path, exc, colors, helperVars, storeVars, response>>

\* the handler: `except Exception as e: ... return simulate_ai_analysis()`
Except(c) ==
    /\ pc[c] = "except"
    /\ IF Catches(exc[c])
       THEN \E rec \in simulate_ai_analysis : Return(c, rec, "except")
       ELSE /\ pc' = [pc EXCEPT ![c] = "raised"]
            /\ UNCHANGED <<result, via>>
    /\ UNCHANGED <<HAS_AI_LIBS, image_path, exc, colors, helperVars, storeVars, response>>

HelpersIdle == args = <<>> /\ ret = <<>>
StoreIdle == materials_db = <<>> /\ orders_db = <<>> /\ response = [status |-> 0]

PipelineInit(images) ==
    /\ HAS_AI_LIBS \in BOOLEAN
    /\ \E img \in images : image_path = [c \in Calls |-> <<img>>]
    /\ pc = [c \in Calls |-> "idle"]
    /\ exc = [c \in Calls |-> "none"]
    /\ colors = [c \in Calls |-> <<>>]
    /\ result = [c \in Calls |-> <<>>]
    /\ via = [c \in Calls |-> "none"]

\* one call of analyze_image_ai on any of the images
InitAnalyze == PipelineInit(AnalyzeImages) /\ HelpersIdle /\ StoreIdle

NextAnalyze ==
    \/ Call(1)
    \/ Decode(1)
    \/ Cluster(1)
    \/ Classify(1)
    \/ Except(1)

SpecAnalyze == InitAnalyze /\ [][NextAnalyze]_vars

\* two calls of analyze_image_ai on the same image, their steps interleaved
DetImages ==
    { NoImage("corrupt"),
      Image(<<1000, 1000>>, Uniform(DenimBlue), 0, 0, 0),
      Image(<<1000, 1000>>, MixedCenters, 251, 2501, 500) }

InitDet == PipelineInit(DetImages) /\ HelpersIdle /\ StoreIdle

Step(c) == Call(c) \/ Decode(c) \/ Cluster(c) \/ Classify(c) \/ Except(c)

NextDet == \E c \in Calls : Step(c)

SpecDet == InitDet /\ [][NextDet]_vars

(***************************************************************************)
(* Claims about analyze_image_ai                                           *)
(***************************************************************************)
RecordKeys == {"color", "color_hex", "texture", "pattern", "quality",
               "quality_rating", "estimated_weight", "dominant_colors",
               "upcycling_ideas"}

Returned(c) == pc[c] = "returned"
Fallback(c) == Returned(c) /\ via[c] \in {"simulation", "except"}
Computed(c) == Returned(c) /\ via[c] = "computed"
Rec(c) == result[c][1]

\* C1: analyze_image_ai never raises to its caller: no call ends with an
\* exception leaving the function, every call that has returned has returned
\* one analysis record with the nine fields, and a call that has not returned
\* yet can always take its next step.
C1_NeverRaises ==
    \A c \in Calls :
        /\ pc[c] # "raised"
        /\ Returned(c) => Len(result[c]) = 1 /\ DOMAIN Rec(c) = RecordKeys
        /\ ~Returned(c) => ENABLED Step(c)

\* a call on an image too small to cluster returned through the handler
C1_Witness ==
    /\ Returned(1)
    /\ via[1] = "except"
    /\ exc[1] = "ValueError"
    /\ image_path[1][1].file = "ok"

\* C2 as claimed: every fallback record is the one fixed default record
\* (Multi-color, Cotton Blend or Cotton, Textured or Solid, 0.75, Good,
\* provenance "fallback").
C2_FixedDefaultRecord ==
    \A c \in Calls :
        Fallback(c) =>
            /\ Rec(c).color = "Multi-color"
            /\ Rec(c).texture \in {"Cotton Blend", "Cotton"}
            /\ Rec(c).pattern \in {"Textured", "Solid"}
            /\ Rec(c).quality = 75
            /\ Rec(c).quality_rating = "Good"
            /\ "provenance" \in DOMAIN Rec(c)

\* C2 amended: every fallback record has color_hex "#d4af37", rating
\* "Excellent" and the three fixed dominant colours; its color, texture and
\* pattern are each one of five fixed strings, its quality lies in 0.70..0.95,
\* its weight in 1.0..5.0, its ideas are those of its own texture and pattern,
\* and it has no provenance field.
C2_FallbackFamily ==
    \A c \in Calls :
        Fallback(c) =>
            /\ DOMAIN Rec(c) = RecordKeys
            /\ Rec(c).color_hex = <<"#", "d", "4", "a", "f", "3", "7">>
            /\ Rec(c).quality_rating = "Excellent"
            /\ Len(Rec(c).dominant_colors) = 3
            /\ Rec(c).dominant_colors[1] = Rec(c).color_hex
            /\ Rec(c).color \in {"Multi-color (Red, Blue, Beige)", "Pink/Coral Palette",
                                 "Denim Blue with Patches", "Earthy Tones", "Vibrant Mix"}
            /\ Rec(c).texture \in {"Cotton Quilted", "Denim", "Silk Blend",
                                   "Cotton Canvas", "Polyester Mix"}
            /\ Rec(c).pattern \in {"Patchwork", "Striped", "Floral", "Geometric",
                                   "Abstract"}
            /\ Rec(c).quality >= 70 /\ Rec(c).quality <= 95
            /\ Rec(c).estimated_weight >= 10 /\ Rec(c).estimated_weight <= 50
            /\ Len(Rec(c).upcycling_ideas) = 5

\* a corrupt file analysed with the AI libraries present: the handler returned
\* a simulated record that is not the claimed default
C2_Witness ==
    /\ HAS_AI_LIBS
    /\ Fallback(1)
    /\ image_path[1][1].file = "corrupt"
    /\ Rec(1).texture = "Denim"
    /\ Rec(1).quality = 95

\* C3 as claimed: two calls on the same image return records equal in every
\* field, on the computed path and on the fallback path alike.
C3_Deterministic ==
    (Returned(1) /\ Returned(2) /\ image_path[1] = image_path[2])
        => Rec(1) = Rec(2)

\* C3 amended: two calls on the same image that both return from the try
\* block return equal records; two calls that both take the fallback agree on
\* color_hex, quality_rating and dominant_colors (their other fields are drawn
\* at random and may differ).
C3_DeterministicComputed ==
    (Returned(1) /\ Returned(2) /\ image_path[1] = image_path[2]) =>
        /\ (Computed(1) /\ Computed(2)) => Rec(1) = Rec(2)
        /\ (Fallback(1) /\ Fallback(2)) =>
              /\ Rec(1).color_hex = Rec(2).color_hex
              /\ Rec(1).quality_rating = Rec(2).quality_rating
              /\ Rec(1).dominant_colors = Rec(2).dominant_colors

\* both calls clustered an image with five different centres and returned
C3_Witness ==
    /\ Computed(1) /\ Computed(2)
    /\ image_path[1][1].centers = MixedCenters
    /\ Rec(1).color = "Gray"
    /\ Rec(1) = Rec(2)

\* C4: the quality score of every returned record is in [0, 1].
C4_QualityInUnitInterval ==
    \A c \in Calls : Returned(c) => Rec(c).quality >= 0 /\ Rec(c).quality <= 100

\* a 12-megapixel image with a Laplacian variance of 2500 scored exactly 1.0
C4_Witness ==
    /\ Computed(1)
    /\ image_path[1][1].height * image_path[1][1].width > 1000000
    /\ image_path[1][1].blur > 1000
    /\ Rec(1).quality = 100

\* C5 as claimed: the rating of every returned record is the tier of its own
\* score with Excellent from 0.85, Good from 0.70 and Fair below.
C5_ThreeTiers ==
    \A c \in Calls :
        Returned(c) =>
            Rec(c).quality_rating =
                IF Rec(c).quality >= 85 THEN "Excellent"
                ELSE IF Rec(c).quality >= 70 THEN "Good"
                ELSE "Fair"

\* C5 amended: a computed record's rating is the tier of its own score with
\* Premium from 0.90, Excellent from 0.75, Good from 0.60 and Fair below; a
\* fallback record's rating is "Excellent" whatever its score.
C5_FourTiers ==
    \A c \in Calls :
        /\ Computed(c) =>
              Rec(c).quality_rating =
                  IF Rec(c).quality >= 90 THEN "Premium"
                  ELSE IF Rec(c).quality >= 75 THEN "Excellent"
                  ELSE IF Rec(c).quality >= 60 THEN "Good"
                  ELSE "Fair"
        /\ Fallback(c) => Rec(c).quality_rating = "Excellent"

\* a computed record scored 0.70 and rated Good
C5_Witness ==
    /\ Computed(1)
    /\ Rec(1).quality = 70
    /\ Rec(1).quality_rating = "Good"

\* C8: a record computed by the ladder has texture Denim only when edge
\* density > 0.25 and standard deviation > 50 (variance > 2500), and a
\* uniform image (edge density 0, variance 0) gets a smooth texture.
C8_DenimNeedsBoth ==
    \A c \in Calls :
        Computed(c) =>
            LET img == image_path[c][1]
            IN /\ Rec(c).texture = "Denim" => (img.edge > 250 /\ img.variance > 2500)
               /\ (img.edge = 0 /\ img.variance = 0) =>
                      Rec(c).texture \in {"Smooth Silk", "Smooth Cotton"}

\* an image with edge density 0.251 and variance 2501 was classified Denim
C8_Witness ==
    /\ Computed(1)
    /\ image_path[1][1].edge = 251
    /\ image_path[1][1].variance = 2501
    /\ Rec(1).texture = "Denim"

(***************************************************************************)
(* Helpers called on their own                                             *)
(***************************************************************************)
PipelineIdle ==
    /\ HAS_AI_LIBS = TRUE
    /\ image_path = [c \in Calls |-> <<>>]
    /\ pc = [c \in Calls |-> "idle"]
    /\ exc = [c \in Calls |-> "none"]
    /\ colors = [c \in Calls |-> <<>>]
    /\ result = [c \in Calls |-> <<>>]
    /\ via = [c \in Calls |-> "none"]

HelperReturn(value) ==
    /\ ret = <<>>
    /\ ret' = <<value>>
    /\ UNCHANGED <<args, pipelineVars, storeVars, response>>

\* get_upcycling_ideas(texture, pattern, color) on any argument triple
IdeaTextures == {"Smooth Silk", "Smooth Cotton", "Cotton", "Textured Cotton", "Denim",
                 "Polyester Mix", "Canvas/Heavy Cotton", "Cotton Blend",
                 "Cotton Quilted", "Silk Blend", "Cotton Canvas", "Linen", "cotton", ""}
IdeaPatterns == {"Complex Patchwork", "Patchwork", "Geometric", "Abstract/Mixed",
                 "Solid/Plain", "Striped/Linear", "Textured", "Striped", "Floral",
                 "Abstract", ""}
IdeaColors == {"Blue", "Multi-color", "Vibrant Mix"}

InitIdeas ==
    /\ args \in IdeaTextures \X IdeaPatterns \X IdeaColors
    /\ ret = <<>>
    /\ PipelineIdle /\ StoreIdle

CallIdeas == HelperReturn(get_upcycling_ideas(args[1], args[2], args[3]))

SpecIdeas == InitIdeas /\ [][CallIdeas]_vars

\* detect_pattern at two edge densities e1 <= e2 and one variance
PatternEdges == {0, 79, 80, 100, 120, 121, 150, 151, 179, 180, 200, 220, 221,
                 300, 301, 1000}
PatternVariances == {0, 2500, 2501, 3500, 3501}

InitPattern ==
    /\ args \in { a \in PatternEdges \X PatternEdges \X PatternVariances : a[1] <= a[2] }
    /\ ret = <<>>
    /\ PipelineIdle /\ StoreIdle

CallPattern ==
    HelperReturn(<<detect_pattern(args[1], args[3]), detect_pattern(args[2], args[3])>>)

SpecPattern == InitPattern /\ [][CallPattern]_vars

\* classify_color on an RGB triple
ChannelVals == {0, 10, 20, 29, 30, 50, 79, 80, 100, 101, 128, 150, 151, 180, 181,
                200, 201, 255}

InitColor ==
    /\ args \in ChannelVals \X ChannelVals \X ChannelVals
    /\ ret = <<>>
    /\ PipelineIdle /\ StoreIdle

CallColor == HelperReturn(classify_color(args))

SpecColor == InitColor /\ [][CallColor]_vars

(***************************************************************************)
(* Claims about the helpers                                                *)
(***************************************************************************)
SeqElems(s) == { s[i] : i \in 1..Len(s) }

\* C6: get_upcycling_ideas returns at most 5 suggestions, each of them from
\* the static list of the category its texture argument selects (the default
\* list when none matches), whatever the pattern adds.
C6_IdeasBounded ==
    ret # <<>> =>
        /\ Len(ret[1]) <= 5
        /\ SeqElems(ret[1]) \subseteq SeqElems(TextureIdeas(args[1]))

\* a Denim texture with a Patchwork pattern: five ideas, all from the denim list
C6_Witness ==
    /\ ret # <<>>
    /\ args[1] = "Denim"
    /\ args[2] = "Patchwork"
    /\ Len(ret[1]) = 5
    /\ ret[1][5] = "Pet accessories and toys"

PatternRank(p) ==
    CASE p = "Solid/Plain" -> 0
      [] p \in {"Textured", "Abstract/Mixed"} -> 1
      [] p \in {"Striped/Linear", "Geometric"} -> 2
      [] p = "Patchwork" -> 3
      [] p = "Complex Patchwork" -> 4

\* C7: for a fixed variance and e1 <= e2 the rank of detect_pattern(e1) is
\* not greater than the rank of detect_pattern(e2), with Solid/Plain < Subtle
\* (Textured, Abstract/Mixed) < Striped/Linear = Geometric < Patchwork <
\* Complex Patchwork.
C7_PatternMonotone ==
    ret # <<>> => PatternRank(ret[1][1]) <= PatternRank(ret[1][2])

Saturation10(rgb) ==
    LET mx == Max3(rgb[1], rgb[2], rgb[3])
        mn == Min3(rgb[1], rgb[2], rgb[3])
    IN mx = 0 \/ 10 * (mx - mn) < mx

Achromatic == {"White/Light", "Gray", "Black/Dark"}

\* C9 as claimed: classify_color gives an achromatic label exactly when the
\* HSV saturation (max-min)/max is below 10% (or max = 0), and a sample with
\* saturation >= 10% is never labelled "Multi-color".
C9_SaturationPartition ==
    ret # <<>> =>
        /\ ret[1] \in Achromatic <=> Saturation10(args)
        /\ ~Saturation10(args) => ret[1] # "Multi-color"

\* C9 amended: classify_color gives an achromatic label (White/Light when
\* max > 200, Black/Dark when max < 80, Gray otherwise) exactly when
\* max - min < 30; every other sample gets one of the eleven chromatic labels
\* or "Multi-color".
C9_SpreadPartition ==
    ret # <<>> =>
        LET mx == Max3(args[1], args[2], args[3])
            mn == Min3(args[1], args[2], args[3])
        IN /\ ret[1] \in Achromatic <=> mx - mn < 30
           /\ ret[1] = "White/Light" => mx > 200
           /\ ret[1] = "Black/Dark" => mx < 80
           /\ ret[1] = "Gray" => (mx >= 80 /\ mx <= 200)
           /\ mx - mn >= 30 =>
                 ret[1] \in {"Red", "Pink/Coral", "Orange/Peach", "Red/Pink", "Blue",
                             "Purple/Violet", "Green", "Teal/Cyan", "Yellow",
                             "Yellow/Gold", "Brown/Tan", "Multi-color"}

\* uniform gray (128,128,128) was classified Gray
C9_Witness ==
    /\ args = <<128, 128, 128>>
    /\ ret = <<"Gray">>

(***************************************************************************)
(* The materials and orders store: upload_material, create_order and       *)
(* get_materials.  A form or JSON value is [kind, num]: kind "empty" is a  *)
(* missing or empty value, "text" one that float() rejects, "num" a number.*)
(* Identifiers (uuid4 in the code) are modelled as fresh list positions.   *)
(***************************************************************************)
MaxMaterials == 1
MaxOrders == 2
MaxQty == 2

Num(n) == [kind |-> "num", num |-> n]
Empty == [kind |-> "empty", num |-> 0]
Text == [kind |-> "text", num |-> 0]

QuantityForms == {Empty, Text} \cup { Num(n) : n \in -1..MaxQty }
PriceForms == {Empty, Num(3)}
Filenames == {"", "cloth.png", "cloth.gif"}

ALLOWED_EXTENSIONS == {"png", "jpg", "jpeg", "webp"}

\* filename.rsplit('.', 1)[1].lower() of the file names tried
Extension(filename) ==
    CASE filename = "cloth.png" -> "png"
      [] filename = "cloth.gif" -> "gif"
      [] OTHER -> ""

allowed_file(filename) == Extension(filename) \in ALLOWED_EXTENSIONS

\* the images factories upload: decodable photographs
UploadImages ==
    { Image(<<1000, 1000>>, Uniform(DenimBlue), 0, 0, 0),
      Image(<<1000, 1000>>, MixedCenters, 251, 2501, 500) }

\* every record a complete call analyze_image_ai(img) can return
analyze_image_ai(img) ==
    IF ~HAS_AI_LIBS THEN simulate_ai_analysis
    ELSE IF img.file # "ok" THEN
        (IF Catches("cv2.error") THEN simulate_ai_analysis ELSE {})
    ELSE IF img.height * img.width < n_clusters THEN
        (IF Catches("ValueError") THEN simulate_ai_analysis ELSE {})
    ELSE { ComputedRecord(img, KMeansFit(img, seed)) : seed \in random_state }

Respond(status, message) == response' = [status |-> status, message |-> message]

\* POST /api/upload
upload_material(has_image, filename, img, quantity, price_per_kg) ==
    IF ~has_image THEN
        Respond(400, "No image provided") /\ UNCHANGED storeVars
    ELSE IF filename = "" THEN
        Respond(400, "No file selected") /\ UNCHANGED storeVars
    ELSE IF ~allowed_file(filename) THEN
        Respond(400, "Invalid file type") /\ UNCHANGED storeVars
    ELSE IF quantity.kind = "empty" THEN
        Respond(400, "Quantity is required") /\ UNCHANGED storeVars
    ELSE IF price_per_kg.kind = "empty" THEN
        Respond(400, "Price per kg is required") /\ UNCHANGED storeVars
    ELSE IF quantity.kind = "text" \/ price_per_kg.kind = "text" THEN
        \* float() raises ValueError, caught by the handler's except
        Respond(500, "could not convert string to float") /\ UNCHANGED storeVars
    ELSE
        \E ai_analysis \in analyze_image_ai(img) :
            LET material == [id |-> Len(materials_db) + 1,
                             quantity |-> quantity.num,
                             price_per_kg |-> price_per_kg.num,
                             total_amount |-> quantity.num * price_per_kg.num,
                             status |-> "available",
                             ai_analysis |-> ai_analysis]
            IN /\ materials_db' = Append(materials_db, material)
               /\ Respond(201, "Material uploaded and analyzed successfully")
               /\ UNCHANGED orders_db

Upload ==
    /\ Len(materials_db) < MaxMaterials
    /\ \E has_image \in BOOLEAN, filename \in Filenames, img \in UploadImages,
          quantity \in QuantityForms, price_per_kg \in PriceForms :
            upload_material(has_image, filename, img, quantity, price_per_kg)
    /\ UNCHANGED <<pipelineVars, helperVars>>

\* next((m for m in materials_db if m['id'] == material_id), None): its position
FindMaterial(material_id) ==
    IF \E i \in 1..Len(materials_db) : materials_db[i].id = material_id
    THEN CHOOSE i \in 1..Len(materials_db) :
            /\ materials_db[i].id = material_id
            /\ \A j \in 1..(i - 1) : materials_db[j].id # material_id
    ELSE 0

\* POST /api/orders
create_order(has_fields, material_id, quantity) ==
    LET i == FindMaterial(material_id)
    IN IF ~has_fields THEN
           Respond(400, "Missing required fields") /\ UNCHANGED storeVars
       ELSE IF i = 0 THEN
           Respond(404, "Material not found") /\ UNCHANGED storeVars
       ELSE IF materials_db[i].status # "available" THEN
           Respond(400, "Material not available") /\ UNCHANGED storeVars
       ELSE IF quantity.kind # "num" THEN
           \* float() raises (ValueError or TypeError), caught by the except
           Respond(500, "could not convert string to float") /\ UNCHANGED storeVars
       ELSE IF quantity.num > materials_db[i].quantity THEN
           Respond(400, "Requested quantity exceeds available quantity")
           /\ UNCHANGED storeVars
       ELSE
           LET material == materials_db[i]
               order == [id |-> Len(orders_db) + 1,
                         material_id |-> material_id,
                         material_details |->
                             [color |-> material.ai_analysis.color,
                              texture |-> material.ai_analysis.texture,
                              pattern |-> material.ai_analysis.pattern],
                         quantity |-> quantity.num,
                         unit_price |-> material.price_per_kg,
                         total_amount |-> quantity.num * material.price_per_kg,
                         status |-> "pending"]
               left == material.quantity - quantity.num
           IN /\ materials_db' =
                    [materials_db EXCEPT
                        ![i] = [material EXCEPT
                                   !.quantity = left,
                                   !.status = IF left <= 0 THEN "sold" ELSE @]]
              /\ orders_db' = Append(orders_db, order)
              /\ Respond(201, "Order created successfully")

Order ==
    /\ Len(orders_db) < MaxOrders
    /\ \E has_fields \in BOOLEAN, material_id \in 1..(MaxMaterials + 1),
          quantity \in QuantityForms :
            create_order(has_fields, material_id, quantity)
    /\ UNCHANGED <<pipelineVars, helperVars>>

\* GET /api/materials?color=..&texture=..
get_materials(color, texture) ==
    LET ColorOK(m) == StrInLower(color, m.ai_analysis.color)
        TextureOK(m) == StrInLower(texture, m.ai_analysis.texture)
        by_color == IF color # "all" THEN SelectSeq(materials_db, ColorOK)
                    ELSE materials_db
        filtered_materials == IF texture # "all" THEN SelectSeq(by_color, TextureOK)
                              ELSE by_color
    IN response' = [status |-> 200,
                    count |-> Len(filtered_materials),
                    materials |-> filtered_materials]

ColorFilters == {"all", "BLUE", "gray"}
TextureFilters == {"all", "silk"}

GetMaterials ==
    /\ \E color \in ColorFilters, texture \in TextureFilters :
          get_materials(color, texture)
    /\ UNCHANGED <<pipelineVars, helperVars, storeVars>>

InitStore ==
    /\ materials_db = <<>>
    /\ orders_db = <<>>
    /\ response = [status |-> 0]
    /\ PipelineIdle /\ HelpersIdle

NextStore == Upload \/ Order \/ GetMaterials

SpecStore == InitStore /\ [][NextStore]_vars

(***************************************************************************)
(* Claims about the store                                                  *)
(***************************************************************************)
IsListing == response.status = 200 /\ "materials" \in DOMAIN response

\* C10: the list GET /api/materials returns holds no material whose status
\* is 'sold', and the returned count is the number of materials listed.
C10_OnlyAvailableListed ==
    IsListing =>
        /\ \A i \in 1..Len(response.materials) : response.materials[i].status # "sold"
        /\ response.count = Len(response.materials)

\* the sum of the quantities of the first n orders placed on material_id
RECURSIVE OrderedQuantity(_, _)
OrderedQuantity(material_id, n) ==
    IF n = 0 THEN 0
    ELSE OrderedQuantity(material_id, n - 1) +
         (IF orders_db[n].material_id = material_id THEN orders_db[n].quantity ELSE 0)

\* the quantity a material was uploaded with: total_amount is set once, by
\* upload_material, to quantity * price_per_kg, and the price never changes
UploadedTimesPrice(m) == m.total_amount

\* C11: no overselling: every accepted order took a quantity q > 0, a
\* material's quantity is never below 0 and never above the quantity it was
\* uploaded with, and uploaded quantity = remaining quantity + the sum of the
\* quantities of its accepted orders.
C11_NoOverselling ==
    /\ \A k \in 1..Len(orders_db) : orders_db[k].quantity > 0
    /\ \A i \in 1..Len(materials_db) :
          LET m == materials_db[i]
          IN /\ m.quantity >= 0
             /\ m.quantity * m.price_per_kg <= UploadedTimesPrice(m)
             /\ UploadedTimesPrice(m) =
                   (m.quantity + OrderedQuantity(m.id, Len(orders_db))) * m.price_per_kg

\* C12: a material's status is 'sold' exactly when its quantity is <= 0, so
\* an 'available' material always has quantity > 0 and no order is accepted
\* on a material that has nothing left.
C12_SoldIffEmpty ==
    \A i \in 1..Len(materials_db) :
        materials_db[i].status = "sold" <=> materials_db[i].quantity <= 0

====
